---- MODULE Spec2Model ----
(***************************************************************************)
(* Model of the cached RFMD read API (src/Backend/myapi.py, the normative  *)
(* variant: cached and configured from the environment).                   *)
(*                                                                         *)
(* Encoding of values.                                                     *)
(*   - A nullable cell (None / NaN / NaT) is a sequence of length <= 1:    *)
(*     Null == <<>>, Some(v) == <<v>>.                                     *)
(*   - A pandas DataFrame is [obj, columns, rows]: obj is the identity of  *)
(*     the Python object (a fresh one per load_base_df call), columns the  *)
(*     set of column labels, rows a sequence of functions columns -> cell. *)
(*   - A float result is an exact fraction <<n, d>> in lowest terms        *)
(*     (d > 0); NaN is Null.                                               *)
(*   - An exception escaping a handler is [error |-> ..., key |-> ...];    *)
(*     FastAPI answers it with status 500.                                 *)
(***************************************************************************)
EXTENDS Integers, Sequences, FiniteSets, TLC

VARIABLES
    CACHE,      \* CACHE = {"data": ..., "last_refresh": ...}
    now,        \* the value time.time() returns
    table,      \* the BigQuery table the DataLoader queries: [columns, rows]
    nloads,     \* number of load_base_df calls so far (object identities)
    refreshes,  \* the load_base_df calls so far: [obj, at, ok], at being the
                \* clock value the calling get_cached_data() read
    response,   \* the last request served: what it saw and what it answered
    th,         \* the request threads of the concurrent server
    build,      \* the installed pandas/numpy build: which of the orders an
                \* unstable sort may leave equal keys in it produces
    ui          \* the dashboard session (src/Dashboard/UI.py)

vars == <<CACHE, now, table, nloads, refreshes, response, th, build, ui>>

(***************************************************************************)
(* Bounds of the model.                                                    *)
(***************************************************************************)
\* rows of a warehouse table drawn from the record pool
MaxRows == 3
\* rows of the longest generated table (more than the 10 that top10 keeps)
MaxLong == 12
\* the clock runs to MaxPeriods * REFRESH_INTERVAL + MaxSkew
MaxPeriods == 2
MaxSkew == 1
\* load_base_df calls in the concurrent server
MaxLoads == 3
\* the builds told apart: 0 .. MaxBuilds - 1
MaxBuilds == 2

(***************************************************************************)
(* Values                                                                  *)
(***************************************************************************)
Null == <<>>
Some(v) == <<v>>
IsNull(c) == c = <<>>
Val(c) == c[1]

RECURSIVE GCD(_, _)
GCD(a, b) ==
    IF b = 0 THEN a ELSE GCD(b, a % b)

Abs(x) == IF x < 0 THEN -x ELSE x

\* the fraction n/d (d > 0) in lowest terms
Frac(n, d) ==
    LET g == GCD(Abs(n), d) IN <<n \div g, d \div g>>

FracAdd(p, q) == Frac(p[1] * q[2] + q[1] * p[2], p[2] * q[2])

FracLess(p, q) == p[1] * q[2] < q[1] * p[2]

RECURSIVE SeqSum(_)
SeqSum(s) ==
    IF s = <<>> THEN 0 ELSE Head(s) + SeqSum(Tail(s))

RECURSIVE FracSum(_)
FracSum(s) ==
    IF s = <<>> THEN <<0, 1>> ELSE FracAdd(Head(s), FracSum(Tail(s)))

\* the non-null values of a sequence of cells, in order
RECURSIVE NonNull(_)
NonNull(s) ==
    IF s = <<>> THEN <<>>
    ELSE IF IsNull(Head(s)) THEN NonNull(Tail(s))
    ELSE <<Val(Head(s))>> \o NonNull(Tail(s))

\* Series.mean() of an integer column: NaN skipped, NaN when nothing is left
Mean(cells) ==
    LET v == NonNull(cells) IN
    IF v = <<>> THEN Null ELSE Some(Frac(SeqSum(v), Len(v)))

\* Series.mean() of a float column holding fractions
FracMean(cells) ==
    LET v == NonNull(cells) IN
    IF v = <<>> THEN Null
    ELSE LET s == FracSum(v) IN Some(Frac(s[1], s[2] * Len(v)))

\* Series.sum(): NaN skipped, 0 when nothing is left
Sum(cells) == SeqSum(NonNull(cells))

\* round(x, 2): to hundredths, half to even; NaN stays NaN
Round2(x) ==
    IF IsNull(x) THEN Null
    ELSE LET a == 100 * Val(x)[1]
             d == Val(x)[2]
             fl == a \div d
             rem == a % d
             h == IF 2 * rem < d THEN fl
                  ELSE IF 2 * rem > d THEN fl + 1
                  ELSE IF fl % 2 = 0 THEN fl ELSE fl + 1
         IN Some(Frac(h, 100))

(***************************************************************************)
(* The warehouse table.  Column labels are the raw ones ("Post code" has a *)
(* space); date cells are the raw strings.                                 *)
(***************************************************************************)
RawColumns ==
    {"customer_id", "first_transaction", "last_transaction", "frequency",
     "monetary", "segment", "R_score", "F_score", "M_score", "D_score",
     "RFMD_score", "Trade", "Post code", "sub_region", "region"}

Row(id, dates, freq, mon, seg, scores, rfmd, trade, sub, reg) ==
    [c \in RawColumns |->
        CASE c = "customer_id" -> id
          [] c = "first_transaction" -> dates[1]
          [] c = "last_transaction" -> dates[2]
          [] c = "frequency" -> freq
          [] c = "monetary" -> mon
          [] c = "segment" -> seg
          [] c = "R_score" -> scores[1]
          [] c = "F_score" -> scores[2]
          [] c = "M_score" -> scores[3]
          [] c = "D_score" -> scores[4]
          [] c = "RFMD_score" -> rfmd
          [] c = "Trade" -> trade
          [] c = "Post code" -> Null
          [] c = "sub_region" -> sub
          [] c = "region" -> reg]

GoodDates == <<Some("2024-01-05"), Some("2024-03-01")>>
BadDates == <<Null, Some("not a date")>>

\* the records the generated tables are built from
Customer1 ==
    Row("c1", GoodDates, Some(1), Some(100), Some("A"),
        <<Some(1), Some(2), Some(3), Some(4)>>, Some(2),
        Some("Plumbing"), Some("A"), Some("North"))
Customer2 ==
    Row("c2", BadDates, Some(3), Some(300), Some("B"),
        <<Some(3), Some(4), Some(5), Some(6)>>, Some(4),
        Some("Roofing"), Some("B"), Some("North"))
Customer3 ==
    Row("c3", GoodDates, Some(2), Some(50), Some("A"),
        <<Some(3), Some(4), Some(5), Some(6)>>, Some(2),
        Some("Plumbing"), Some("A"), Some("South"))
Customer4 ==
    Row("c4", BadDates, Null, Null, Null,
        <<Null, Null, Null, Null>>, Null,
        Null, Null, Null)
Customer5 ==
    Row("c5", GoodDates, Null, Some(400), Some("B"),
        <<Some(5), Some(2), Null, Some(1)>>, Some(3),
        Some("Roofing"), Some("B"), Some("South"))

Pool == {Customer1, Customer2, Customer3, Customer4, Customer5}

Injective(s) == \A i, j \in DOMAIN s : s[i] = s[j] => i = j

\* customer_id is unique: the rows of a table are distinct pool records
PoolRows ==
    { s \in UNION { [1..n -> Pool] : n \in 0..MaxRows } : Injective(s) }

\* a table of n > 10 customers; the scores of customers 1 and 12 tie,
\* customer 3 has no score
LongRows(n) ==
    [i \in 1..n |->
        Row(ToString(i), GoodDates, Some(i), Some(10 * i),
            Some(IF i % 2 = 0 THEN "A" ELSE "B"),
            <<Some(1), Some(2), Some(3), Some(4)>>,
            IF i = 3 THEN Null ELSE Some((5 * i) % 11),
            Some("Plumbing"), Some("A"), Some("North"))]

\* the legacy area column, when the table has it
WithArea(rows) ==
    [i \in DOMAIN rows |->
        [c \in RawColumns \cup {"area"} |->
            IF c = "area" THEN Some(i) ELSE rows[i][c]]]

Tables ==
    LET rowsets == PoolRows \cup { LongRows(n) : n \in 11..MaxLong } IN
    { [columns |-> RawColumns, rows |-> r] : r \in rowsets }
    \cup { [columns |-> RawColumns \cup {"area"}, rows |-> WithArea(r)] :
              r \in rowsets }

(***************************************************************************)
(* load_base_df                                                            *)
(***************************************************************************)
\* c.replace(" ", "_") on the column labels of the tables above
Underscore(c) ==
    CASE c = "Post code" -> "Post_code"
      [] OTHER -> c

\* the strings pd.to_datetime parses, with the calendar date each denotes
Calendar ==
    ("2024-01-05" :> <<2024, 1, 5>>) @@ ("2024-03-01" :> <<2024, 3, 1>>)

\* pd.to_datetime(x, errors="coerce").dt.date on one cell
ToDate(cell) ==
    IF IsNull(cell) THEN Null
    ELSE IF Val(cell) \in DOMAIN Calendar THEN Some(Calendar[Val(cell)])
    ELSE Null

DateColumns == {"first_transaction", "last_transaction"}

\* pd.DataFrame(): no columns, no rows
EmptyDataFrame(obj) == [obj |-> obj, columns |-> {}, rows |-> <<>>]

\* ok: the BigQuery query and download succeed; otherwise the except branch
load_base_df(ok, tbl, obj) ==
    IF ~ok THEN EmptyDataFrame(obj)
    ELSE LET cols == { Underscore(c) : c \in tbl.columns }
             raw == [n \in cols |-> CHOOSE c \in tbl.columns : Underscore(c) = n]
         IN [obj |-> obj,
             columns |-> cols,
             rows |-> [i \in DOMAIN tbl.rows |->
                         [n \in cols |->
                            IF n \in DateColumns
                            THEN ToDate(tbl.rows[i][raw[n]])
                            ELSE tbl.rows[i][raw[n]]]]]

(***************************************************************************)
(* The cache                                                               *)
(***************************************************************************)
REFRESH_INTERVAL == 15 * 24 * 60 * 60

\* the condition of get_cached_data's if
IsStale_ge(cache, t) ==
    IsNull(cache.data) \/ t - cache.last_refresh >= REFRESH_INTERVAL

IsStale(cache, t) ==
    IsNull(cache.data) \/ t - cache.last_refresh > REFRESH_INTERVAL

\* the writes made only when the fetch succeeded (a failed fetch leaves the
\* frame without columns)
Refresh_if_loaded(cache, t, df) ==
    IF df.columns = {} THEN cache ELSE [data |-> Some(df), last_refresh |-> t]

\* the body of the if: both writes, in one step (sequential access)
Refresh(cache, t, df) ==
    [data |-> Some(df), last_refresh |-> t]

\* get_cached_data() called at clock value t, df being what load_base_df()
\* returns if it is called: whether it is called, CACHE afterwards, and the
\* DataFrame returned (CACHE["data"] read again)
get_cached_data_always(cache, t, df) ==
    [called |-> TRUE, CACHE |-> Refresh(cache, t, df), ret |-> df]

get_cached_data(cache, t, df) ==
    IF IsStale(cache, t)
    THEN [called |-> TRUE, CACHE |-> Refresh(cache, t, df), ret |-> df]
    ELSE [called |-> FALSE, CACHE |-> cache, ret |-> Val(cache.data)]

(***************************************************************************)
(* DataFrame helpers                                                       *)
(***************************************************************************)
Ok(body) == [status |-> 200, body |-> body]
\* an exception no handler catches: FastAPI answers 500
Raise(kind, key) == [status |-> 500, body |-> [error |-> kind, key |-> key]]

EmptyDict == <<>>

\* df.empty: an axis of length 0
Empty(df) == df.columns = {} \/ df.rows = <<>>

\* df[c], c being a column of df
Col(df, c) == [i \in DOMAIN df.rows |-> df.rows[i][c]]

\* the rows at the given positions, in that order
Take(rows, idx) == [k \in DOMAIN idx |-> rows[idx[k]]]

\* the positions from `from` on where a boolean mask is TRUE, ascending
RECURSIVE Positions(_, _)
Positions(mask, from) ==
    IF from > Len(mask) THEN <<>>
    ELSE IF mask[from] THEN <<from>> \o Positions(mask, from + 1)
    ELSE Positions(mask, from + 1)

\* the positions where a boolean mask is TRUE
Where(mask) == Positions(mask, 1)

Count(cells, v) == Cardinality({ i \in DOMAIN cells : cells[i] = Some(v) })

\* the distinct non-null values of a column
Values(cells) == { Val(cells[i]) : i \in { j \in DOMAIN cells : ~IsNull(cells[j]) } }

\* Series.value_counts().idxmax(): a value of the highest count; which one
\* among equal counts depends on the order the unstable sort leaves them in
IdxMaxOfCounts(cells) ==
    { v \in Values(cells) : \A w \in Values(cells) : Count(cells, w) <= Count(cells, v) }

\* every order of the index set S that is descending in key (ties in any
\* order: sort_values' default kind, quicksort, is not stable)
RECURSIVE DescOrders(_, _)
DescOrders(key, S) ==
    IF S = {} THEN { <<>> }
    ELSE UNION { { <<i>> \o t : t \in DescOrders(key, S \ {i}) } :
                   i \in { j \in S : \A m \in S : key[m] <= key[j] } }

\* the first missing column among those a handler reads, in reading order
FirstMissing(df, reads) ==
    LET miss == Where([k \in DOMAIN reads |-> reads[k] \notin df.columns]) IN
    IF miss = <<>> THEN Null ELSE Some(reads[miss[1]])

(***************************************************************************)
(* The handlers.  Each is the set of answers the handler can give on the   *)
(* DataFrame get_cached_data() returned: one answer, except where the      *)
(* order of equal keys after an unstable sort shows in the answer.         *)
(***************************************************************************)
\* GET /homeowners
get_homeowners(df) ==
    { Ok(df.rows) }

\* the dict get_kpis returns for a non-empty df
KpiDicts(df) ==
    { [total_customers |-> Len(df.rows),
       avg_rfmd |-> Round2(Mean(Col(df, "RFMD_score"))),
       avg_monetary |-> Round2(Mean(Col(df, "monetary"))),
       avg_frequency |-> Round2(Mean(Col(df, "frequency"))),
       top_trade |-> tt,
       top_region |-> tr] :
         tt \in IdxMaxOfCounts(Col(df, "Trade")),
         tr \in IdxMaxOfCounts(Col(df, "region")) }

\* df[c] raising KeyError
KeyErr(df, c) ==
    IF c \notin df.columns THEN Some(Raise("KeyError", c)) ELSE Null

\* df[c].value_counts().idxmax() raising: KeyError, or ValueError when no
\* value is left to take the maximum of
IdxMaxErr(df, c) ==
    IF c \notin df.columns THEN Some(Raise("KeyError", c))
    ELSE IF Values(Col(df, c)) = {} THEN Some(Raise("ValueError", c))
    ELSE Null

\* the first exception raised, the expressions being evaluated in order
FirstRaised(raised) ==
    LET at == Where([k \in DOMAIN raised |-> ~IsNull(raised[k])]) IN
    IF at = <<>> THEN Null ELSE raised[at[1]]

\* GET /homeowners/kpis
get_kpis(df) ==
    LET exc == FirstRaised(<<KeyErr(df, "RFMD_score"), KeyErr(df, "monetary"),
                             KeyErr(df, "frequency"), IdxMaxErr(df, "Trade"),
                             IdxMaxErr(df, "region")>>)
    IN IF Empty(df) THEN { Ok(EmptyDict) }
       ELSE IF ~IsNull(exc) THEN { Val(exc) }
       ELSE { Ok(d) : d \in KpiDicts(df) }

\* df.drop(columns=["area"], errors="ignore")
DropArea(df) ==
    [obj |-> df.obj,
     columns |-> df.columns \ {"area"},
     rows |-> [i \in DOMAIN df.rows |->
                 [c \in df.columns \ {"area"} |-> df.rows[i][c]]]]

\* df.sort_values(col, ascending=False): the orders of the row positions it
\* can produce.  NaN keys go last, in input order (na_position="last").
SortValuesDesc(cells) ==
    LET nan == Where([i \in DOMAIN cells |-> IsNull(cells[i])])
        key == [i \in DOMAIN cells |-> IF IsNull(cells[i]) THEN 0 ELSE Val(cells[i])]
        S == { i \in DOMAIN cells : ~IsNull(cells[i]) }
    IN { o \o nan : o \in DescOrders(key, S) }

\* .head(n)
HeadRows(s, n) == SubSeq(s, 1, IF Len(s) < n THEN Len(s) ELSE n)

TopN == 10

\* GET /homeowners/top10
get_top10(df) ==
    LET df_clean == DropArea(df) IN
    IF "RFMD_score" \notin df_clean.columns THEN { Raise("KeyError", "RFMD_score") }
    ELSE { Ok(HeadRows(Take(df_clean.rows, o), TopN)) :
             o \in SortValuesDesc(Col(df_clean, "RFMD_score")) }

ScoreColumns == <<"R_score", "F_score", "M_score", "D_score">>

\* the rows of one group of df.groupby("segment")
GroupRows(df, by, g) ==
    Take(df.rows, Where([i \in DOMAIN df.rows |-> df.rows[i][by] = Some(g)]))

\* column col of one group
GroupCol(df, by, g, col) ==
    LET rows == GroupRows(df, by, g) IN [i \in DOMAIN rows |-> rows[i][col]]

\* df.groupby("segment")[ScoreColumns].mean(): per group, the four means
GroupedMeans(df) ==
    [g \in Values(Col(df, "segment")) |->
        [k \in 1..4 |-> Mean(GroupCol(df, "segment", g, ScoreColumns[k]))]]

\* a set as a sequence, in some order
RECURSIVE SetToSeq(_)
SetToSeq(S) ==
    IF S = {} THEN <<>>
    ELSE LET x == CHOOSE y \in S : TRUE IN <<x>> \o SetToSeq(S \ {x})

\* grouped.mean(): per column, the mean of the group means
MeanOfGroups(grouped) ==
    LET gs == SetToSeq(DOMAIN grouped) IN
    [k \in 1..4 |-> FracMean([i \in DOMAIN gs |-> grouped[gs[i]][k]])]

\* a str argument that Python's `if segment` takes as given
Truthy(arg) == ~IsNull(arg) /\ Val(arg) # ""

\* GET /homeowners/radar?segment=
get_radar(df, segment) ==
    LET miss == FirstMissing(df, <<"segment">> \o ScoreColumns) IN
    IF ~IsNull(miss) THEN { Raise("KeyError", Val(miss)) }
    ELSE LET grouped == GroupedMeans(df)
             seg_data == IF Truthy(segment) /\ Val(segment) \in DOMAIN grouped
                         THEN grouped[Val(segment)]
                         ELSE MeanOfGroups(grouped)
         IN { Ok([labels |-> <<"Recency", "Frequency", "Monetary", "Duration">>,
                  scores |-> seg_data]) }

\* df[df[col] == value], applied when the argument is given and is not the
\* sentinel; Null when df has no such column
FilterEq(df, col, arg, sentinel) ==
    IF ~(Truthy(arg) /\ Val(arg) # sentinel) THEN Some(df)
    ELSE IF col \notin df.columns THEN Null
    ELSE Some([df EXCEPT !.rows =
                 Take(df.rows, Where([i \in DOMAIN df.rows |-> df.rows[i][col] = arg]))])

\* Series.value_counts() as records {Trade, Count}: descending counts
ValueCounts(cells) ==
    LET vs == SetToSeq(Values(cells))
        key == [i \in DOMAIN vs |-> Count(cells, vs[i])]
    IN { [k \in DOMAIN o |-> [Trade |-> vs[o[k]], Count |-> key[o[k]]]] :
           o \in DescOrders(key, DOMAIN vs) }

\* GET /homeowners/tradecounts?region=&sub_region=
get_tradecounts(df, region, sub_region) ==
    LET byRegion == FilterEq(df, "region", region, "All Regions") IN
    IF IsNull(byRegion) THEN { Raise("KeyError", "region") }
    ELSE LET bySub == FilterEq(Val(byRegion), "sub_region", sub_region, "All Sub-Regions") IN
         IF IsNull(bySub) THEN { Raise("KeyError", "sub_region") }
         ELSE IF "Trade" \notin Val(bySub).columns THEN { Raise("KeyError", "Trade") }
         ELSE { Ok(c) : c \in ValueCounts(Col(Val(bySub), "Trade")) }

\* the labels of the model in the order groupby sorts them
SortedLabels == <<"A", "B", "North", "South">>

FirstLabel(S) ==
    SortedLabels[CHOOSE i \in DOMAIN SortedLabels :
                    /\ SortedLabels[i] \in S
                    /\ \A j \in 1..(i - 1) : SortedLabels[j] \notin S]

\* df.groupby("segment")["RFMD_score"].mean()
SegScores(df) ==
    [g \in Values(Col(df, "segment")) |->
        Mean(GroupCol(df, "segment", g, "RFMD_score"))]

\* df.groupby("region")["monetary"].sum()
RegScores(df) ==
    [g \in Values(Col(df, "region")) |->
        Sum(GroupCol(df, "region", g, "monetary"))]

\* seg_scores.sort_values(ascending=False) read at position 0, as
\* <<best_segment, best_segment_score>>: a group of the highest mean; when
\* every mean is NaN the first group; "N/A" and 0 when there is no group
BestSegment(seg_scores) ==
    LET G == DOMAIN seg_scores
        num == { g \in G : ~IsNull(seg_scores[g]) }
    IN IF G = {} THEN { <<"N/A", Some(<<0, 1>>)>> }
       ELSE IF num = {} THEN { <<FirstLabel(G), Null>> }
       ELSE { <<g, Round2(seg_scores[g])>> :
                g \in { x \in num : \A y \in num :
                          ~FracLess(Val(seg_scores[x]), Val(seg_scores[y])) } }

\* reg_scores.sort_values(ascending=False) read at position 0
BestRegion(reg_scores) ==
    LET G == DOMAIN reg_scores IN
    IF G = {} THEN { <<"N/A", Some(<<0, 1>>)>> }
    ELSE { <<g, Round2(Some(<<reg_scores[g], 1>>))>> :
             g \in { x \in G : \A y \in G : reg_scores[y] <= reg_scores[x] } }

\* the dict get_summary returns for a non-empty df
SummaryDicts(df) ==
    { [total_customers |-> Len(df.rows),
       avg_rfmd |-> Round2(Mean(Col(df, "RFMD_score"))),
       top_trade |-> tt,
       top_region |-> tr,
       avg_monetary |-> Round2(Mean(Col(df, "monetary"))),
       avg_frequency |-> Round2(Mean(Col(df, "frequency"))),
       best_segment |-> bs[1],
       best_segment_score |-> bs[2],
       best_region_revenue |-> br[1],
       best_region_revenue_value |-> br[2]] :
         tt \in IdxMaxOfCounts(Col(df, "Trade")),
         tr \in IdxMaxOfCounts(Col(df, "region")),
         bs \in BestSegment(SegScores(df)),
         br \in BestRegion(RegScores(df)) }

\* GET /homeowners/summary
get_summary(df) ==
    LET exc == FirstRaised(<<KeyErr(df, "RFMD_score"), IdxMaxErr(df, "Trade"),
                             IdxMaxErr(df, "region"), KeyErr(df, "monetary"),
                             KeyErr(df, "frequency"), KeyErr(df, "segment")>>)
    IN IF Empty(df) THEN { Ok(EmptyDict) }
       ELSE IF ~IsNull(exc) THEN { Val(exc) }
       ELSE { Ok(d) : d \in SummaryDicts(df) }

(***************************************************************************)
(* The server under sequential access: one request at a time, each handler *)
(* run to completion.                                                      *)
(***************************************************************************)
\* the tables of the specifications that let the clock run
CacheTables ==
    { [columns |-> RawColumns, rows |-> r] :
        r \in { <<>>, <<Customer1, Customer2, Customer3>> } }

\* the query parameters of the requests (Null: parameter absent)
SegmentArgs == {Null, Some(""), Some("A"), Some("NoSuchSegment")}
RegionArgs == {Null, Some("All Regions"), Some("North")}
SubRegionArgs == {Null, Some("All Sub-Regions"), Some("A")}

Threads == {1, 2}

IdleThread == [pc |-> "idle", now |-> 0, df |-> Null, ret |-> Null]

\* the builds of pandas/numpy the server may run on
Builds == 0..(MaxBuilds - 1)

InitWith(tables, builds) ==
    /\ CACHE = [data |-> Null, last_refresh |-> 0]
    /\ now = 0
    /\ table \in tables
    /\ nloads = 0
    /\ refreshes = {}
    /\ response = Null
    /\ th = [i \in Threads |-> IdleThread]
    /\ build \in builds
    /\ ui = Null

Init == InitWith(CacheTables, Builds)

\* time passes between requests
Tick(d) ==
    /\ now + d <= MaxPeriods * REFRESH_INTERVAL + MaxSkew
    /\ (now + d) % REFRESH_INTERVAL <= MaxSkew
    /\ now' = now + d
    /\ UNCHANGED <<CACHE, table, nloads, refreshes, response, th, build, ui>>

\* what a request remembers of CACHE: which object it held, and the time
Identity(cache) ==
    [data |-> IF IsNull(cache.data) THEN Null ELSE Some(Val(cache.data).obj),
     last_refresh |-> cache.last_refresh]

\* the routes of app: the answers of the handler of op on df
Route(op, args, df) ==
    CASE op = "listing" -> get_homeowners(df)
      [] op = "kpis" -> get_kpis(df)
      [] op = "top10" -> get_top10(df)
      [] op = "radar" -> get_radar(df, args[1])
      [] op = "tradecounts" -> get_tradecounts(df, args[1], args[2])
      [] op = "summary" -> get_summary(df)

\* the answer the handler gives on this build, out of those it can give:
\* sorting is a function of its input, the same frame gives the same order
Outcome(b, answers) ==
    LET s == SetToSeq(answers) IN s[(b % Len(s)) + 1]

\* df.drop(columns=["area"], errors="ignore", inplace=True) in get_top10
InPlace_drop(op, df) == IF op = "top10" THEN DropArea(df) ELSE df

\* the DataFrame object get_cached_data() returned, once the handler of op
\* has run on it: where, drop, sort_values, groupby and df[mask] all return
\* new objects (no inplace=True, no assignment into df), so it is as it was
InPlace(op, df) == df

\* one request: df = get_cached_data(), then the handler's own code on df
Serve(op, args) ==
    \E ok \in BOOLEAN :
        LET obj == nloads + 1
            got == get_cached_data(CACHE, now, load_base_df(ok, table, obj))
            r == Outcome(build, Route(op, args, got.ret))
        IN /\ ~got.called => ok
           /\ CACHE' = IF got.CACHE.data = Some(got.ret)
                       THEN [got.CACHE EXCEPT !.data = Some(InPlace(op, got.ret))]
                       ELSE got.CACHE
           /\ nloads' = IF got.called THEN obj ELSE nloads
           /\ refreshes' = IF got.called
                           THEN refreshes \cup {[obj |-> obj, at |-> now, ok |-> ok]}
                           ELSE refreshes
           /\ response' = Some([op |-> op, args |-> args, t |-> now,
                                loaded |-> got.called, ok |-> got.called /\ ok,
                                prior |-> Identity(CACHE), snap |-> got.ret.obj,
                                status |-> r.status, body |-> r.body])
           /\ UNCHANGED <<now, table, build>>

\* the six GET routes, served while no other request is in progress
GetHomeowners ==
    /\ Serve("listing", <<>>)
    /\ UNCHANGED <<th, ui>>
GetKpis ==
    /\ Serve("kpis", <<>>)
    /\ UNCHANGED <<th, ui>>
GetTop10 ==
    /\ Serve("top10", <<>>)
    /\ UNCHANGED <<th, ui>>
GetRadar ==
    /\ \E segment \in SegmentArgs : Serve("radar", <<segment>>)
    /\ UNCHANGED <<th, ui>>
GetTradecounts ==
    /\ \E region \in RegionArgs, sub_region \in SubRegionArgs :
          Serve("tradecounts", <<region, sub_region>>)
    /\ UNCHANGED <<th, ui>>
GetSummary ==
    /\ Serve("summary", <<>>)
    /\ UNCHANGED <<th, ui>>

Request ==
    \/ GetHomeowners
    \/ GetKpis
    \/ GetTop10
    \/ GetRadar
    \/ GetTradecounts
    \/ GetSummary

Advance == \E d \in {1, REFRESH_INTERVAL - 1, REFRESH_INTERVAL} : Tick(d)

Next == Advance \/ Request

Spec == Init /\ [][Next]_vars

\* the aggregations over every table of the family, the clock standing still
AggInit == InitWith(Tables, Builds)

AggSpec == AggInit /\ [][Request]_vars

\* the cache alone: every request is GET /homeowners
CacheNext == Advance \/ GetHomeowners

CacheSpec == Init /\ [][CacheNext]_vars

(***************************************************************************)
(* Properties of the cache                                                 *)
(***************************************************************************)
LastServed == Val(response)

\* the last request found the cache stale, called the loader, and the load failed
FailedRefresh ==
    response # Null /\ LastServed.loaded /\ ~LastServed.ok

\* C1 (as claimed): when a refresh fails while a prior snapshot exists, the
\* request is answered from the prior snapshot, without error, and the cache
\* still holds the prior snapshot afterwards.
C1_PriorSnapshotSurvivesFailedRefresh ==
    (FailedRefresh /\ LastServed.prior.data # Null) =>
        /\ LastServed.status = 200
        /\ Some(LastServed.snap) = LastServed.prior.data
        /\ Some(Val(CACHE.data).obj) = LastServed.prior.data

\* C2 (as claimed): a failed refresh leaves last_refresh as it was, so the
\* next request served, however soon, calls the loader again.
C2_FailedRefreshRetriedAtOnce ==
    [][FailedRefresh =>
          /\ CACHE.last_refresh = LastServed.prior.last_refresh
          /\ (nloads' = nloads /\ response' # response) => FALSE]_vars

\* C3: every request made within REFRESH_INTERVAL of a refresh is answered
\* from the snapshot that refresh stored (so any two of them are answered
\* from the identical snapshot), and no two loader calls lie within
\* REFRESH_INTERVAL of each other.
C3_IdempotentReads ==
    /\ \A f \in refreshes :
         (response # Null /\ f.at <= LastServed.t
            /\ LastServed.t - f.at <= REFRESH_INTERVAL) =>
                LastServed.snap = f.obj
    /\ \A f, g \in refreshes :
         (f # g /\ f.at <= g.at) => g.at - f.at > REFRESH_INTERVAL

\* a request at the very end of a refresh's window, answered from its snapshot
C3_Witness ==
    /\ response # Null
    /\ ~LastServed.loaded
    /\ \E f \in refreshes :
         LastServed.t - f.at = REFRESH_INTERVAL /\ LastServed.snap = f.obj

\* C4: a request calls the loader exactly when the cache held nothing or
\* was older than REFRESH_INTERVAL (strictly); when the load succeeds the
\* request is answered from the newly loaded table, which the cache then holds.
C4_StalenessRule ==
    response # Null =>
        /\ LastServed.loaded <=>
             \/ LastServed.prior.data = Null
             \/ LastServed.t - LastServed.prior.last_refresh > REFRESH_INTERVAL
        /\ (LastServed.loaded /\ LastServed.ok) =>
             /\ [obj |-> LastServed.snap, at |-> LastServed.t, ok |-> TRUE] \in refreshes
             /\ Some(LastServed.snap) # LastServed.prior.data
             /\ Val(CACHE.data).obj = LastServed.snap
             /\ CACHE.last_refresh = LastServed.t
             /\ Len(Val(CACHE.data).rows) = Len(table.rows)
             /\ \A i \in DOMAIN table.rows :
                  Val(CACHE.data).rows[i]["customer_id"] = table.rows[i]["customer_id"]
             /\ LastServed.op = "listing" => LastServed.body = Val(CACHE.data).rows

\* a snapshot older than REFRESH_INTERVAL by one second was replaced by a
\* successful load of a non-empty table
C4_Witness ==
    /\ response # Null
    /\ LastServed.prior.data # Null
    /\ LastServed.t - LastServed.prior.last_refresh = REFRESH_INTERVAL + 1
    /\ LastServed.loaded /\ LastServed.ok
    /\ Val(CACHE.data).rows # <<>>

(***************************************************************************)
(* The server under concurrent access: FastAPI runs the handlers (plain    *)
(* def) on a thread pool, and get_cached_data takes no lock.  Each thread  *)
(* serves GET /homeowners; a step is one read or write of CACHE or of the  *)
(* clock, or the whole of load_base_df.                                    *)
(***************************************************************************)
\* line 54: now = time.time()
Arrive(i) ==
    /\ th[i].pc = "idle"
    /\ th' = [th EXCEPT ![i] = [pc |-> "test_data", now |-> now, df |-> Null, ret |-> Null]]
    /\ UNCHANGED <<CACHE, now, table, nloads, refreshes, response, build, ui>>

\* line 55, left of the or: CACHE["data"] is None
TestData(i) ==
    /\ th[i].pc = "test_data"
    /\ th' = [th EXCEPT ![i].pc = IF IsNull(CACHE.data) THEN "load" ELSE "test_age"]
    /\ UNCHANGED <<CACHE, now, table, nloads, refreshes, response, build, ui>>

\* line 55, right of the or: now - CACHE["last_refresh"] > REFRESH_INTERVAL
TestAge(i) ==
    /\ th[i].pc = "test_age"
    /\ th' = [th EXCEPT ![i].pc =
                IF th[i].now - CACHE.last_refresh > REFRESH_INTERVAL
                THEN "load" ELSE "return"]
    /\ UNCHANGED <<CACHE, now, table, nloads, refreshes, response, build, ui>>

\* line 56, right-hand side: load_base_df()
Load(i) ==
    /\ th[i].pc = "load"
    /\ nloads < MaxLoads
    /\ \E ok \in BOOLEAN :
         /\ th' = [th EXCEPT ![i].pc = "store_data",
                             ![i].df = Some(load_base_df(ok, table, nloads + 1))]
         /\ refreshes' = refreshes \cup {[obj |-> nloads + 1, at |-> th[i].now, ok |-> ok]}
    /\ nloads' = nloads + 1
    /\ UNCHANGED <<CACHE, now, table, response, build, ui>>

\* line 56, the assignment: CACHE["data"] = ...
StoreData(i) ==
    /\ th[i].pc = "store_data"
    /\ CACHE' = [CACHE EXCEPT !.data = th[i].df]
    /\ th' = [th EXCEPT ![i].pc = "store_time"]
    /\ UNCHANGED <<now, table, nloads, refreshes, response, build, ui>>

\* line 57: CACHE["last_refresh"] = now
StoreTime(i) ==
    /\ th[i].pc = "store_time"
    /\ CACHE' = [CACHE EXCEPT !.last_refresh = th[i].now]
    /\ th' = [th EXCEPT ![i].pc = "return"]
    /\ UNCHANGED <<now, table, nloads, refreshes, response, build, ui>>

\* line 58: return CACHE["data"]; the handler answers with its rows
Return(i) ==
    /\ th[i].pc = "return"
    /\ th' = [th EXCEPT ![i].pc = "idle", ![i].df = Null, ![i].ret = CACHE.data]
    /\ UNCHANGED <<CACHE, now, table, nloads, refreshes, response, build, ui>>

ThreadStep ==
    \E i \in Threads :
        \/ Arrive(i)
        \/ TestData(i)
        \/ TestAge(i)
        \/ Load(i)
        \/ StoreData(i)
        \/ StoreTime(i)
        \/ Return(i)

ConcNext == Advance \/ ThreadStep

\* GET /homeowners has one answer whatever the build: one build is enough
ConcInit ==
    InitWith({ [columns |-> RawColumns, rows |-> <<Customer1, Customer2, Customer3>>] },
             {0})

ConcSpec == ConcInit /\ [][ConcNext]_vars

Quiescent == \A i \in Threads : th[i].pc = "idle"

\* the DataFrames load_base_df has returned so far
Loaded == { load_base_df(f.ok, table, f.obj) : f \in refreshes }

\* C7 (as claimed): once the racing requests are through, CACHE holds the
\* DataFrame and the timestamp of one and the same refresh, never the
\* DataFrame of one refresh with the timestamp of another; and every request
\* was answered from a DataFrame that load_base_df returned whole.
C7_RacingRefreshesLeaveOnePair ==
    /\ (Quiescent /\ CACHE.data # Null) =>
          \E f \in refreshes :
              f.obj = Val(CACHE.data).obj /\ f.at = CACHE.last_refresh
    /\ \A i \in Threads : th[i].ret # Null => Val(th[i].ret) \in Loaded

(***************************************************************************)
(* Properties of the endpoints.  Under sequential access the DataFrame the *)
(* last request was answered from is the one CACHE holds.                  *)
(***************************************************************************)
Served(op) == response # Null /\ LastServed.op = op

Snapshot == Val(CACHE.data)

\* C5 (as claimed): a request whose load failed, with or without a prior
\* snapshot, is answered without error, whichever the endpoint.
C5_LoadFailureNeverAnError ==
    FailedRefresh => LastServed.status = 200

\* C6 (as claimed): on an empty cached dataset kpis, summary and tradecounts
\* (whatever its arguments) answer without error, with an empty result.
C6_EmptyDatasetAnswers ==
    (response # Null /\ LastServed.op \in {"kpis", "summary", "tradecounts"}
        /\ Empty(Snapshot)) =>
            LastServed.status = 200 /\ LastServed.body = <<>>

\* the sum of f over a finite set of indices
RECURSIVE SumOver(_, _)
SumOver(I, f) ==
    IF I = {} THEN 0
    ELSE LET i == CHOOSE j \in I : TRUE IN f[i] + SumOver(I \ {i}, f)

\* the sum of the fractions f[i], i in I
RECURSIVE FracSumOver(_, _)
FracSumOver(I, f) ==
    IF I = {} THEN <<0, 1>>
    ELSE LET i == CHOOSE j \in I : TRUE IN FracAdd(f[i], FracSumOver(I \ {i}, f))

\* the average of column c over the rows at I that have a value there
Average(rows, I, c) ==
    LET J == { i \in I : rows[i][c] # Null } IN
    IF J = {} THEN Null
    ELSE Some(Frac(SumOver(J, [i \in J |-> Val(rows[i][c])]), Cardinality(J)))

SegmentGroups(rows) ==
    { Val(rows[i]["segment"]) : i \in { j \in DOMAIN rows : rows[j]["segment"] # Null } }

GroupAverage(rows, g, c) ==
    Average(rows, { i \in DOMAIN rows : rows[i]["segment"] = Some(g) }, c)

\* the mean over the groups of the per-group averages: each group counts
\* once, whatever its number of rows
MeanOfMeans(rows, c) ==
    LET G == { g \in SegmentGroups(rows) : GroupAverage(rows, g, c) # Null }
        total == FracSumOver(G, [g \in G |-> Val(GroupAverage(rows, g, c))])
    IN IF G = {} THEN Null ELSE Some(Frac(total[1], total[2] * Cardinality(G)))

\* what the claim says radar(segment) answers on these rows
RadarClaimed(rows, segment) ==
    [k \in 1..4 |->
        IF segment # Null /\ Val(segment) \in SegmentGroups(rows)
        THEN GroupAverage(rows, Val(segment), ScoreColumns[k])
        ELSE MeanOfMeans(rows, ScoreColumns[k])]

\* C8 (as claimed): radar answers with the four averages of the segment
\* asked for when it is a group of the dataset, and otherwise with the mean
\* over the groups of the group averages; always four scores, labelled
\* Recency, Frequency, Monetary, Duration.
C8_RadarScores ==
    Served("radar") =>
        /\ LastServed.status = 200
        /\ LastServed.body.labels = <<"Recency", "Frequency", "Monetary", "Duration">>
        /\ Len(LastServed.body.scores) = 4
        /\ LastServed.body.scores = RadarClaimed(Snapshot.rows, LastServed.args[1])

\* a filter argument that selects: given, and not the sentinel
Selects(arg, sentinel) == arg # Null /\ Val(arg) # "" /\ Val(arg) # sentinel

\* the rows the claim says tradeCounts(region, sub_region) counts over
Matching(rows, region, sub_region) ==
    { i \in DOMAIN rows :
        /\ Selects(region, "All Regions") => rows[i]["region"] = region
        /\ Selects(sub_region, "All Sub-Regions") => rows[i]["sub_region"] = sub_region }

\* C9 (as claimed): tradecounts answers with one {Trade, Count} per Trade
\* value occurring among the rows that match both filters, Count being the
\* number of those rows with that Trade; no matching row, empty list.
C9_TradeCountsOverMatchingRows ==
    Served("tradecounts") =>
        LET rows == Snapshot.rows
            M == Matching(rows, LastServed.args[1], LastServed.args[2])
            trades == { Val(rows[i]["Trade"]) : i \in { j \in M : rows[j]["Trade"] # Null } }
            body == LastServed.body
        IN /\ LastServed.status = 200
           /\ { body[k].Trade : k \in DOMAIN body } = trades
           /\ Len(body) = Cardinality(trades)
           /\ \A k \in DOMAIN body :
                body[k].Count = Cardinality({ i \in M : rows[i]["Trade"] = Some(body[k].Trade) })
           /\ M = {} => body = <<>>

\* the key top10 sorts on: a missing score ranks below every score
ScoreKey(row) == IF row["RFMD_score"] = Null THEN -1 ELSE Val(row["RFMD_score"])

\* the position the claim gives row i: after the rows of higher score and
\* after the earlier rows of equal score
RankClaimed(rows, i) ==
    1 + Cardinality({ j \in DOMAIN rows : ScoreKey(rows[j]) > ScoreKey(rows[i]) })
      + Cardinality({ j \in 1..(i - 1) : ScoreKey(rows[j]) = ScoreKey(rows[i]) })

WithoutArea(row) == [c \in (DOMAIN row) \ {"area"} |-> row[c]]

Min(a, b) == IF a < b THEN a ELSE b

\* C10 (as claimed): top10 answers with min(10, n) rows: those of highest
\* RFMD_score in descending order, equal scores in input order, the area
\* field removed.
C10_TopTenStable ==
    Served("top10") =>
        LET rows == Snapshot.rows
            body == LastServed.body
        IN /\ LastServed.status = 200
           /\ Len(body) = Min(TopN, Len(rows))
           /\ \A i \in DOMAIN rows :
                RankClaimed(rows, i) <= TopN =>
                    body[RankClaimed(rows, i)] = WithoutArea(rows[i])

(***************************************************************************)
(* Properties of the handlers as readers of the cache                      *)
(***************************************************************************)
\* the record pool in the order the warehouse returns it
PoolOrder == <<Customer1, Customer2, Customer3, Customer4, Customer5>>

PoolIndex(r) == CHOOSE k \in DOMAIN PoolOrder : PoolOrder[k] = r

\* the tables of the family whose rows are the records of the pool from
\* some record on, as many as a table holds; and the empty table
ReadTables ==
    { t \in Tables :
        /\ Len(t.rows) <= MaxRows
        /\ \A i \in DOMAIN t.rows :
              i > 1 => PoolIndex([c \in RawColumns |-> t.rows[i][c]])
                         = PoolIndex([c \in RawColumns |-> t.rows[i - 1][c]]) + 1
        /\ t.rows # <<>> =>
              \/ Len(t.rows) = MaxRows
              \/ t.rows[Len(t.rows)]["customer_id"] = PoolOrder[Len(PoolOrder)]["customer_id"] }

ReadInit == InitWith(ReadTables, Builds)

\* a second passes between requests
Wait == Tick(1)

\* the six routes over those tables, the cache fresh once it is loaded
ReadNext == Wait \/ Request

ReadSpec == ReadInit /\ [][ReadNext]_vars

\* two requests with the same route and query parameters, answered from the
\* same DataFrame object
SameRequest(a, b) == a.op = b.op /\ a.args = b.args /\ a.snap = b.snap

\* C11: a request that finds the cache fresh leaves CACHE as it was, the rows
\* and columns of the cached DataFrame and last_refresh alike, whichever of
\* the six routes it is; and a request that repeats the previous one on the
\* same DataFrame gets the same status and the same body.
C11_HandlersReadOnly ==
    [][ /\ ~IsStale(CACHE, now) => CACHE' = CACHE
        /\ (response # Null /\ response' # Null
              /\ SameRequest(Val(response), Val(response')))
            => /\ Val(response').status = Val(response).status
               /\ Val(response').body = Val(response).body ]_vars

\* C11 witness: GET /homeowners/top10 answered from a fresh cache whose
\* DataFrame has the area column and rows of equal RFMD_score
C11_Witness ==
    /\ response # Null
    /\ LastServed.op = "top10"
    /\ ~LastServed.loaded
    /\ LastServed.status = 200
    /\ CACHE.data # Null
    /\ Val(CACHE.data).obj = LastServed.snap
    /\ "area" \in Val(CACHE.data).columns
    /\ \E i, j \in DOMAIN Val(CACHE.data).rows :
          /\ i # j
          /\ ~IsNull(Val(CACHE.data).rows[i]["RFMD_score"])
          /\ Val(CACHE.data).rows[i]["RFMD_score"] = Val(CACHE.data).rows[j]["RFMD_score"]

(***************************************************************************)
(* Properties of the summary                                               *)
(***************************************************************************)
RegionGroups(rows) ==
    { Val(rows[i]["region"]) : i \in { j \in DOMAIN rows : rows[j]["region"] # Null } }

\* the monetary total of the rows of region g, absent values adding nothing
RegionRevenue(rows, g) ==
    LET J == { i \in DOMAIN rows : rows[i]["region"] = Some(g) /\ rows[i]["monetary"] # Null }
    IN SumOver(J, [i \in J |-> Val(rows[i]["monetary"])])

\* g is a segment of the highest average RFMD_score there is
HighestSegment(rows, g) ==
    /\ g \in SegmentGroups(rows)
    /\ \A h \in SegmentGroups(rows) :
          \/ GroupAverage(rows, h, "RFMD_score") = Null
          \/ /\ GroupAverage(rows, g, "RFMD_score") # Null
             /\ ~FracLess(Val(GroupAverage(rows, g, "RFMD_score")),
                          Val(GroupAverage(rows, h, "RFMD_score")))

\* g is a region of the highest monetary total
HighestRegion(rows, g) ==
    /\ g \in RegionGroups(rows)
    /\ \A h \in RegionGroups(rows) : RegionRevenue(rows, h) <= RegionRevenue(rows, g)

\* C12 (as claimed): on a dataset of at least one record, summary answers
\* with total_customers the number of records, best_segment a segment whose
\* average RFMD_score is the highest among the segments, and
\* best_region_revenue a region whose summed monetary is the highest among
\* the regions.
C12_SummaryReportsTheBest ==
    (Served("summary") /\ Snapshot.rows # <<>>) =>
        /\ LastServed.status = 200
        /\ LastServed.body.total_customers = Len(Snapshot.rows)
        /\ SegmentGroups(Snapshot.rows) # {} =>
              HighestSegment(Snapshot.rows, LastServed.body.best_segment)
        /\ RegionGroups(Snapshot.rows) # {} =>
              HighestRegion(Snapshot.rows, LastServed.body.best_region_revenue)

(***************************************************************************)
(* The cache after a request, whatever the loads did                       *)
(***************************************************************************)
\* the most recent call of load_base_df
LastRefresh == CHOOSE f \in refreshes : f.obj = nloads

\* once a request has been served CACHE holds a DataFrame, and last_refresh
\* is the clock value read by the request that made the most recent load
CacheHolds ==
    response # Null =>
        /\ CACHE.data # Null
        /\ nloads > 0
        /\ CACHE.last_refresh = LastRefresh.at

Options == {"HomeOwner", "Corporate", "Insurance", "Government"}

\* the functions each page module defines
homeowner_page == {"display_kpis", "display_row2", "display_row3", "display_option1"}
corporate_page == {"display_corporate"}
insurance_page == {"display_insurance"}
gov_page == {"display_government"}

\* the attributes of an imported module
Attributes(module) ==
    CASE module = "homeowner_page" -> homeowner_page
      [] module = "corporate_page" -> corporate_page
      [] module = "insurance_page" -> insurance_page
      [] module = "gov_page" -> gov_page

\* the if / elif chain of main(): the attribute looked up for each option
Dispatch(selected_option) ==
    CASE selected_option = "HomeOwner" ->
            [module |-> "homeowner_page", attr |-> "display_option1"]
      [] selected_option = "Corporate" ->
            [module |-> "corporate_page", attr |-> "display_option2"]
      [] selected_option = "Insurance" ->
            [module |-> "insurance_page", attr |-> "display_option3"]
      [] selected_option = "Government" ->
            [module |-> "gov_page", attr |-> "display_option4"]

\* an exception raised while the script runs, and where
Raised(kind, at) == Some([error |-> kind, at |-> at])

\* the cells of column c of the records
Cells(data, c) == [i \in DOMAIN data |-> data[i][c]]

\* display_kpis: Null when it returns, the exception when it raises
\* (idxmax of the empty value_counts of a column without a value)
display_kpis(data) ==
    IF Values(Cells(data, "Trade")) = {} THEN Raised("ValueError", "display_kpis")
    ELSE IF Values(Cells(data, "region")) = {} THEN Raised("ValueError", "display_kpis")
    ELSE Null

\* display_row2: segment_rfmd.loc[None] when None is the one segment
display_row2(data) ==
    IF Values(Cells(data, "segment")) = {} THEN Raised("KeyError", "display_row2")
    ELSE Null

\* display_row3: sorted() of sub_region values, None among strings
display_row3(data) ==
    IF /\ Values(Cells(data, "sub_region")) # {}
       /\ \E i \in DOMAIN data : IsNull(data[i]["sub_region"])
    THEN Raised("TypeError", "display_row3")
    ELSE Null

\* the home owner page with the filters at "All": its three rows in turn
display_option1(data) ==
    FirstRaised(<<display_kpis(data), display_row2(data), display_row3(data)>>)

\* the other pages filter on segment and show the table
display_corporate(data) == Null
display_insurance(data) == Null
display_government(data) == Null

\* calling the attribute found
Call(attr, data) ==
    CASE attr = "display_option1" -> display_option1(data)
      [] attr = "display_corporate" -> display_corporate(data)
      [] attr = "display_insurance" -> display_insurance(data)
      [] attr = "display_government" -> display_government(data)

\* load_data_from_api(): the records of GET /homeowners; no record when the
\* API is out of reach or answers with an error status (except branch)
load_data_from_api(reach, answer) ==
    IF reach /\ answer.status = 200
    THEN [data |-> answer.body, api_error |-> FALSE]
    ELSE [data |-> <<>>, api_error |-> TRUE]

\* main() on the loaded records with the option chosen in the sidebar
main(loaded, selected_option) ==
    LET d == Dispatch(selected_option)
        base == [data |-> loaded.data, api_error |-> loaded.api_error,
                 selected_option |-> selected_option]
    IN IF loaded.data = <<>>
       THEN base @@ [view |-> "warning", called |-> Null, raised |-> Null]
       ELSE IF d.attr \notin Attributes(d.module)
       THEN base @@ [view |-> "error", called |-> Some(d),
                     raised |-> Raised("AttributeError", "main")]
       ELSE LET exc == Call(d.attr, loaded.data) IN
            base @@ [view |-> IF IsNull(exc) THEN "rendered" ELSE "error",
                     called |-> Some(d), raised |-> exc]

\* the first run of the script: load_data_from_api() asks the API, and the
\* radio stands at its first option
FirstRun(reach) ==
    LET selected_option == "HomeOwner" IN
    /\ ui = Null
    /\ IF reach
       THEN /\ Serve("listing", <<>>)
            /\ ui' = Some(main(load_data_from_api(TRUE, Val(response')),
                                selected_option))
       ELSE /\ ui' = Some(main(load_data_from_api(FALSE, Ok(<<>>)),
                                selected_option))
            /\ UNCHANGED <<CACHE, now, table, nloads, refreshes, response, build>>
    /\ UNCHANGED th

\* a later run, the user having chosen an option: st.cache_data returns
\* what the first run got
Rerun(selected_option) ==
    /\ ui # Null
    /\ ui' = Some(main([data |-> Val(ui).data, api_error |-> Val(ui).api_error],
                        selected_option))
    /\ UNCHANGED <<CACHE, now, table, nloads, refreshes, response, th, build>>

Open == \E reach \in BOOLEAN : FirstRun(reach)

Select == \E selected_option \in Options : Rerun(selected_option)

DashNext == Open \/ Select

DashInit == InitWith(Tables, {0})

DashSpec == DashInit /\ [][DashNext]_vars

\* C14 (as claimed): whenever the API data is non-empty, the option chosen
\* is dispatched to a function its page module defines and the page is
\* rendered, whichever of the four options it is; whenever the data is empty
\* the warning is shown and no page function is looked up.
C14_EveryPageRenders ==
    ui # Null =>
        IF Val(ui).data # <<>>
        THEN /\ Val(ui).called # Null
             /\ Val(Val(ui).called).attr \in Attributes(Val(Val(ui).called).module)
             /\ Val(ui).view = "rendered"
        ELSE /\ Val(ui).view = "warning"
             /\ Val(ui).called = Null
====
